---- MODULE Spec2Model ----
(***************************************************************************)
(* A model of beatboxer/beatboxer.py: the BeatBoxer engine (tempo fields,  *)
(* the current beat, the stored beats), the template editor                *)
(* (_edit_template and Mlist) and the length arithmetic of make_a_beat.    *)
(*                                                                         *)
(* Python values are modelled as follows.                                  *)
(*   - An optional value is a sequence of length at most one: None is <<>> *)
(*     and the value v is <<v>>.                                           *)
(*   - An Mlist object lives in the heap `cells`: its identity is its      *)
(*     index, its contents the sequence stored there.  A template (a       *)
(*     Python list of Mlist objects) is a sequence of cell identities, so  *)
(*     two templates that share Mlist objects share identities.            *)
(*   - A beat dict is a record.  make_a_beat always builds a fresh dict    *)
(*     and nothing ever assigns to a key of an existing one, so the value  *)
(*     of the dict stands for the object.  Its 'audio' is the length of    *)
(*     the AudioSegment in ms.                                             *)
(*   - A raised exception ends the operation where it is raised: every     *)
(*     assignment made before it stays.  `err` names the outcome.          *)
(***************************************************************************)
EXTENDS Integers, Sequences, FiniteSets, TLC

VARIABLES
    constructed,    \* whether __init__ has returned an engine
    bpm,            \* self.bpm
    base_note,      \* self.base_note
    _bpm,           \* self._bpm
    _spb,           \* self._spb
    current_beat,   \* self.current_beat: None or a beat dict
    stored_beats,   \* self.stored_beats: name -> None or a beat dict
    cells,          \* the heap of Mlist objects
    last,           \* the last call made on the engine
    err,            \* its outcome: "ok" or the exception it raised
    calls,          \* number of calls the caller has made
    measure,        \* editor harness: the template handed to _edit_template
    before,         \* editor harness: that template before the call
    applied,        \* editor harness: the call's etype and shortcuts
    edit_err        \* editor harness: the call's outcome

engine == <<constructed, bpm, base_note, _bpm, _spb, current_beat,
            stored_beats, cells, last, err, calls>>
harness == <<measure, before, applied, edit_err>>
vars == <<engine, harness>>

----------------------------------------------------------------------------
(* Bounds of the model *)

\* beats per measure of the templates handed to make_a_beat: 1..MaxBeats
MaxBeats == 2
\* number of calls the caller makes on the engine
MaxCalls == 3
\* the every_<n>th keys handed to _edit_template alone: n in 1..MaxNth
MaxNth == 4

----------------------------------------------------------------------------
(* Python values *)

None == <<>>
Some(v) == <<v>>
IsNone(o) == o = <<>>
Val(o) == o[1]

Range(s) == {s[i] : i \in DOMAIN s}

\* a & b on non-negative integers
RECURSIVE BitAnd(_, _)
BitAnd(a, b) ==
    IF a <= 0 \/ b <= 0 THEN 0
    ELSE (a % 2) * (b % 2) + 2 * BitAnd(a \div 2, b \div 2)

----------------------------------------------------------------------------
(* Tempo: __init__, change_bpm, change_base_note *)

\* bool(base_note & (base_note - 1)) or not base_note
BadBaseNote(n) == BitAnd(n, n - 1) # 0 \/ n = 0

Tempo == [bpm |-> bpm, base_note |-> base_note, _bpm |-> _bpm, _spb |-> _spb]

\* self._bpm = (self.base_note//4) * self.bpm ; self._spb = 60000//self._bpm
\* on a tempo t whose bpm and base_note are already assigned
Recompute(t) ==
    LET b == (t.base_note \div 4) * t.bpm IN
    IF b = 0
    THEN [t |-> [t EXCEPT !._bpm = b], err |-> "ZeroDivisionError"]
    ELSE [t |-> [t EXCEPT !._bpm = b, !._spb = 60000 \div b], err |-> "ok"]

\* change_bpm(new_bpm), new_bpm optional
change_bpm(t, new_bpm) ==
    IF IsNone(new_bpm) THEN [t |-> t, err |-> "ok"]
    ELSE Recompute([t EXCEPT !.bpm = Val(new_bpm)])

\* change_base_note(new_base_note), new_base_note optional
change_base_note(t, new_base_note) ==
    IF IsNone(new_base_note) THEN [t |-> t, err |-> "ok"]
    ELSE IF BadBaseNote(Val(new_base_note)) THEN [t |-> t, err |-> "InvalidTempo"]
    ELSE Recompute([t EXCEPT !.base_note = Val(new_base_note)])

\* __init__(bpm, base_note) up to line 43
init_tempo(b, n) ==
    IF BadBaseNote(n) THEN [t |-> Tempo, err |-> "InvalidTempo"]
    ELSE Recompute([bpm |-> b, base_note |-> n, _bpm |-> 0, _spb |-> 0])

----------------------------------------------------------------------------
(* The clip library and Mlist *)

\* BeatBoxer.oneshots: clip name -> len(AudioSegment) in ms.  The lengths
\* stand for those of the wav files the class loads: two clips, one longer.
oneshots == [kick |-> 300, snare |-> 200]
Clips == DOMAIN oneshots

\* Mlist._cappend
_cappend(cell, n) == IF n \in Range(cell) THEN cell ELSE Append(cell, n)

\* Mlist._cremove: list.remove drops the first occurrence
_cremove(cell, n) ==
    IF n \notin Range(cell) THEN cell
    ELSE LET k == CHOOSE i \in DOMAIN cell :
                      cell[i] = n /\ \A j \in 1..(i - 1) : cell[j] # n
         IN SubSeq(cell, 1, k - 1) \o SubSeq(cell, k + 1, Len(cell))

\* Mlist.cchange
cchange(cell, n, etype) ==
    IF etype = "append" THEN _cappend(cell, n)
    ELSE IF etype = "remove" THEN _cremove(cell, n)
    ELSE cell

\* BeatBoxer.empty(num_beats)
empty(num_beats) == [i \in 1..num_beats |-> <<>>]

----------------------------------------------------------------------------
(* Shortcut keys.  The keyword name of a shortcut is the string            *)
(* pre \o digits \o suf, kept in these three parts so that the tests of    *)
(* _edit_template on the name can be computed.                             *)

Key(pre, digits, suf) == [pre |-> pre, digits |-> digits, suf |-> suf]
KeyEveryBeat == Key("every_beat", <<>>, "")
KeySingle == Key("single", <<>>, "")
KeyNth(digits, suf) == Key("every_", digits, suf)

\* int() of a string of decimal digits
RECURSIVE DecVal(_)
DecVal(digits) ==
    IF digits = <<>> THEN 0
    ELSE 10 * DecVal(SubSeq(digits, 1, Len(digits) - 1)) + digits[Len(digits)]

\* re.findall('every_(\d+)(?:st|nd|rd|th)', shortcut) is not empty
NthMatch(key) ==
    /\ key.pre = "every_"
    /\ key.digits # <<>>
    /\ key.suf \in {"st", "nd", "rd", "th"}

----------------------------------------------------------------------------
(* _edit_template on the contents of a template: m is the sequence of the  *)
(* cells' contents, m[i + 1] the cell of Python index i.  The result is    *)
(* the contents when the call ends and the exception that ended it.        *)

\* for oneshot in shortcuts[shortcut]: measure[ind_beat].cchange(oneshot, etype)
RECURSIVE ChangeAll(_, _, _)
ChangeAll(cell, names, etype) ==
    IF names = <<>> THEN cell
    ELSE ChangeAll(cchange(cell, Head(names), etype), Tail(names), etype)

\* lines 330-333
EveryBeat(m, names, etype) ==
    [measure |-> [i \in 1..Len(m) |-> ChangeAll(m[i], names, etype)],
     err |-> "ok"]

\* line 341 without its first conjunct
NthHitAnyBeat(ind_beat, offset, nth) == (ind_beat - offset) % nth = 0

\* line 341: ind_beat >= oneshot[1] and not (ind_beat - oneshot[1]) % nth
NthHit(ind_beat, offset, nth) ==
    ind_beat >= offset /\ (ind_beat - offset) % nth = 0

\* lines 338-342 on one cell
RECURSIVE NthCell(_, _, _, _, _)
NthCell(cell, ind_beat, nth, pairs, etype) ==
    IF pairs = <<>> THEN cell
    ELSE LET oneshot == Head(pairs) IN
         NthCell(IF NthHit(ind_beat, oneshot[2], nth)
                 THEN cchange(cell, oneshot[1], etype) ELSE cell,
                 ind_beat, nth, Tail(pairs), etype)

\* lines 335-342.  With nth = 0 the first pair whose test reaches the
\* modulo raises before any cell is changed.
EveryNth(m, nth, pairs, etype) ==
    IF nth = 0
    THEN [measure |-> m,
          err |-> IF \E i \in 1..Len(m), k \in DOMAIN pairs : i - 1 >= pairs[k][2]
                  THEN "ZeroDivisionError" ELSE "ok"]
    ELSE [measure |-> [i \in 1..Len(m) |-> NthCell(m[i], i - 1, nth, pairs, etype)],
          err |-> "ok"]

\* measure[ind_beat] of a Python list of length n: the position, or 0 when
\* the subscript raises IndexError
ListIndex(n, ind_beat) ==
    IF 0 <= ind_beat /\ ind_beat < n THEN ind_beat + 1
    ELSE IF -n <= ind_beat /\ ind_beat < 0 THEN n + ind_beat + 1
    ELSE 0

\* lines 345-347: items is the dict's (oneshot, ind_beats) pairs in order
RECURSIVE Single(_, _, _)
Single(m, items, etype) ==
    IF items = <<>> THEN [measure |-> m, err |-> "ok"]
    ELSE LET oneshot == Head(items)[1]
             ind_beats == Head(items)[2]
         IN IF ind_beats = <<>> THEN Single(m, Tail(items), etype)
            ELSE LET p == ListIndex(Len(m), Head(ind_beats)) IN
                 IF p = 0 THEN [measure |-> m, err |-> "IndexError"]
                 ELSE Single([m EXCEPT ![p] = cchange(m[p], oneshot, etype)],
                             <<<<oneshot, Tail(ind_beats)>>>> \o Tail(items),
                             etype)

\* the body of the loop of line 328 for one shortcut
EditOne(m, sc, etype) ==
    IF sc.key = KeyEveryBeat THEN EveryBeat(m, sc.val, etype)
    ELSE IF NthMatch(sc.key) THEN EveryNth(m, DecVal(sc.key.digits), sc.val, etype)
    ELSE IF sc.key = KeySingle THEN Single(m, sc.val, etype)
    ELSE [measure |-> m, err |-> "ok"]

\* lines 328-349
RECURSIVE EditLoop(_, _, _)
EditLoop(m, shortcuts, etype) ==
    IF shortcuts = <<>> THEN [measure |-> m, err |-> "ok"]
    ELSE LET r == EditOne(m, Head(shortcuts), etype) IN
         IF r.err # "ok" THEN r
         ELSE EditLoop(r.measure, Tail(shortcuts), etype)

\* _edit_template(measure, etype, **shortcuts)
_edit_template(m, etype, shortcuts) ==
    IF etype \notin {"append", "remove"}
    THEN [measure |-> m, err |-> "UnknownEditType"]
    ELSE EditLoop(m, shortcuts, etype)

----------------------------------------------------------------------------
(* make_a_beat *)

\* the contents of the Mlist objects of a template
Contents(ids) == [i \in DOMAIN ids |-> cells[ids[i]]]

\* the heap after the Mlist objects of a template took the contents m
Written(ids, m) ==
    [c \in DOMAIN cells |->
        IF \E i \in DOMAIN ids : ids[i] = c
        THEN m[CHOOSE i \in DOMAIN ids : ids[i] = c]
        ELSE cells[c]]

\* _max_len(oneshots)
_max_len(cell) ==
    IF cell # <<>>
    THEN CHOOSE x \in {oneshots[cell[i]] : i \in DOMAIN cell} :
             \A j \in DOMAIN cell : oneshots[cell[j]] <= x
    ELSE 0

\* lines 188-193 with line 193 taking the last cell that is not empty
BeatLengthFinalNonEmpty(spb, m, num_measures, repeatable) ==
    LET measure_length == spb * Len(m)
        beat_length == measure_length * num_measures
        filled == {i \in DOMAIN m : m[i] # <<>>}
        final == IF filled = {} THEN <<>>
                 ELSE m[CHOOSE i \in filled : \A j \in filled : j <= i]
    IN IF ~repeatable THEN beat_length + _max_len(final) ELSE beat_length

\* lines 188-193: len(beat); the overlays of lines 196-219 keep that length
BeatLength(spb, m, num_measures, repeatable) ==
    LET measure_length == spb * Len(m)
        beat_length == measure_length * num_measures
    IN IF ~repeatable THEN beat_length + _max_len(m[Len(m)]) ELSE beat_length

\* lines 188-224: the dict assigned to self.current_beat, for the template
\* ids whose Mlist objects hold m, under the tempo t
BeatDict(t, ids, m, num_measures, repeatable) ==
    [audio |-> BeatLength(t._spb, m, num_measures, repeatable),
     beats_per_measure |-> Len(ids),
     bpm |-> t.bpm,
     num_measures |-> num_measures,
     base_note |-> t.base_note,
     measure |-> ids,
     repeatable |-> repeatable]

\* num_measures or y: None and 0 are falsy
OrInt(x, y) == IF IsNone(x) \/ Val(x) = 0 THEN y ELSE Val(x)

\* repeatable or y: None and False are falsy
OrBool(x, y) == IF IsNone(x) \/ ~Val(x) THEN y ELSE Val(x)

----------------------------------------------------------------------------
(* Inputs of the calls *)

Names == {"a", "b"}
BpmVals == {60, 120}
BaseNotes == {0, 1, 2, 3, 4, 5, 6, 8, 16}

Shortcut(key, val) == [key |-> key, val |-> val]
KickEveryBeat == <<Shortcut(KeyEveryBeat, <<"kick">>)>>
SnareEvery2nd == <<Shortcut(KeyNth(<<2>>, "nd"), << <<"snare", 1>> >>)>>
\* a first index every template has, then one no template has
SnareSingle == <<Shortcut(KeySingle, << <<"snare", <<0, MaxBeats>> >> >>)>>
KickEveryBeet == <<Shortcut(Key("every_beet", <<>>, ""), <<"kick">>)>>

RenderShortcuts == {<<>>, KickEveryBeat, SnareEvery2nd, SnareSingle, KickEveryBeet}
AddShortcuts == {<<>>, KickEveryBeat, SnareSingle}
RemoveShortcuts == {<<>>, KickEveryBeat}

----------------------------------------------------------------------------
(* The engine's operations *)

\* one more call of the caller
Called == calls < MaxCalls /\ calls' = calls + 1

SetTempo(t) ==
    /\ bpm' = t.bpm
    /\ base_note' = t.base_note
    /\ _bpm' = t._bpm
    /\ _spb' = t._spb

\* __init__(bpm=b, base_note=n): an exception leaves no engine
Construct(b, n) ==
    /\ ~constructed /\ Called
    /\ LET r == init_tempo(b, n) IN
       /\ err' = r.err
       /\ constructed' = (r.err = "ok")
       /\ IF r.err = "ok" THEN SetTempo(r.t)
                          ELSE UNCHANGED <<bpm, base_note, _bpm, _spb>>
    /\ last' = [op |-> "__init__", bpm |-> b, base_note |-> n]
    /\ UNCHANGED <<current_beat, stored_beats, cells, harness>>

\* change_bpm(new_bpm) called on the engine
ChangeBpm(new_bpm) ==
    /\ constructed /\ Called
    /\ LET r == change_bpm(Tempo, Some(new_bpm)) IN
       SetTempo(r.t) /\ err' = r.err
    /\ last' = [op |-> "change_bpm", arg |-> new_bpm]
    /\ UNCHANGED <<constructed, current_beat, stored_beats, cells, harness>>

\* change_base_note(new_base_note) called on the engine
ChangeBaseNote(new_base_note) ==
    /\ constructed /\ Called
    /\ LET r == change_base_note(Tempo, Some(new_base_note)) IN
       SetTempo(r.t) /\ err' = r.err
    /\ last' = [op |-> "change_base_note", arg |-> new_base_note]
    /\ UNCHANGED <<constructed, current_beat, stored_beats, cells, harness>>

\* make_a_beat(empty(n), num_measures, repeatable, **shortcuts): line 186
\* copies the caller's template into fresh Mlist objects, which are dropped
\* with the call when _edit_template raises
make_a_beat(n, num_measures, repeatable, shortcuts) ==
    /\ constructed /\ Called
    /\ LET e == _edit_template(empty(n), "append", shortcuts)
           ids == [i \in 1..n |-> Len(cells) + i]
       IN /\ err' = e.err
          /\ IF e.err = "ok"
             THEN /\ cells' = cells \o e.measure
                  /\ current_beat' =
                        Some(BeatDict(Tempo, ids, e.measure, num_measures, repeatable))
             ELSE UNCHANGED <<cells, current_beat>>
    /\ last' = [op |-> "make_a_beat"]
    /\ UNCHANGED <<constructed, bpm, base_note, _bpm, _spb, stored_beats, harness>>

\* store_beat(name)
store_beat(name) ==
    /\ constructed /\ Called
    /\ stored_beats' =
          [k \in DOMAIN stored_beats \cup {name} |->
              IF k = name THEN current_beat ELSE stored_beats[k]]
    /\ err' = "ok"
    /\ last' = [op |-> "store_beat", name |-> name]
    /\ UNCHANGED <<constructed, bpm, base_note, _bpm, _spb, current_beat, cells,
                   harness>>

\* switch_current_beat with line 278 reading `if self.current_beat:`
switch_ignoring_force(name, force) ==
    /\ constructed /\ Called
    /\ IF ~IsNone(current_beat)
       THEN err' = "Conflict" /\ UNCHANGED current_beat
       ELSE IF name \notin DOMAIN stored_beats
       THEN err' = "KeyError" /\ UNCHANGED current_beat
       ELSE err' = "ok" /\ current_beat' = stored_beats[name]
    /\ last' = [op |-> "switch_current_beat", name |-> name, force |-> force,
                present |-> ~IsNone(current_beat)]
    /\ UNCHANGED <<constructed, bpm, base_note, _bpm, _spb, stored_beats, cells,
                   harness>>

\* switch_current_beat(name, force)
switch_current_beat(name, force) ==
    /\ constructed /\ Called
    /\ IF ~IsNone(current_beat) /\ ~force
       THEN err' = "Conflict" /\ UNCHANGED current_beat
       ELSE IF name \notin DOMAIN stored_beats
       THEN err' = "KeyError" /\ UNCHANGED current_beat
       ELSE err' = "ok" /\ current_beat' = stored_beats[name]
    /\ last' = [op |-> "switch_current_beat", name |-> name, force |-> force,
                present |-> ~IsNone(current_beat)]
    /\ UNCHANGED <<constructed, bpm, base_note, _bpm, _spb, stored_beats, cells,
                   harness>>

\* edit_current_beat: the engine (tempo, current beat, heap) when the call
\* ends, and the exception that ended it
EditOutcome(new_bpm, new_base_note, num_measures, repeatable, remove, add) ==
    LET old_bpm == bpm
        r1 == change_bpm(Tempo, new_bpm)                        \* line 302
        old_base_note == r1.t.base_note
        r2 == change_base_note(r1.t, new_base_note)             \* line 306
        Out(t, cur, heap, e) == [t |-> t, cur |-> cur, cells |-> heap, err |-> e]
    IN
    IF r1.err # "ok" THEN Out(r1.t, current_beat, cells, r1.err)
    ELSE IF r2.err # "ok" THEN Out(r2.t, current_beat, cells, r2.err)
    ELSE IF IsNone(current_beat)                                \* line 309
    THEN Out(r2.t, current_beat, cells, "TypeError")
    ELSE
    LET cur == Val(current_beat)
        ids == cur.measure
        e1 == _edit_template(Contents(ids), "append", add)      \* line 311
        e2 == _edit_template(e1.measure, "remove", remove)      \* line 312
    IN
    IF e1.err # "ok" THEN Out(r2.t, current_beat, Written(ids, e1.measure), e1.err)
    ELSE IF e2.err # "ok" THEN Out(r2.t, current_beat, Written(ids, e2.measure), e2.err)
    ELSE
    LET beat == BeatDict(r2.t, ids, e2.measure,                 \* lines 313-314
                         OrInt(num_measures, cur.num_measures),
                         OrBool(repeatable, cur.repeatable))
        r3 == change_bpm(r2.t, Some(old_bpm))                   \* line 317
        r4 == change_base_note(r3.t, Some(old_base_note))       \* line 318
        heap == Written(ids, e2.measure)
    IN
    IF r3.err # "ok" THEN Out(r3.t, Some(beat), heap, r3.err)
    ELSE Out(r4.t, Some(beat), heap, r4.err)

\* edit_current_beat(bpm, base_note, num_measures, repeatable, remove, add)
edit_current_beat(new_bpm, new_base_note, num_measures, repeatable, remove, add) ==
    /\ constructed /\ Called
    /\ LET o == EditOutcome(new_bpm, new_base_note, num_measures, repeatable,
                            remove, add)
       IN /\ SetTempo(o.t)
          /\ current_beat' = o.cur
          /\ cells' = o.cells
          /\ err' = o.err
    /\ last' = [op |-> "edit_current_beat"]
    /\ UNCHANGED <<constructed, stored_beats, harness>>

----------------------------------------------------------------------------
(* The engine driven by its caller, from b = BeatBoxer(bpm=120, base_note=4) *)

NotApplied == [etype |-> "none", shortcuts |-> <<>>]

HarnessIdle ==
    /\ measure = <<>>
    /\ before = <<>>
    /\ applied = NotApplied
    /\ edit_err = "ok"

Init ==
    /\ constructed = TRUE
    /\ LET r == init_tempo(120, 4) IN
       /\ bpm = r.t.bpm
       /\ base_note = r.t.base_note
       /\ _bpm = r.t._bpm
       /\ _spb = r.t._spb
       /\ err = r.err
    /\ current_beat = None
    /\ stored_beats = <<>>
    /\ cells = <<>>
    /\ last = [op |-> "__init__", bpm |-> 120, base_note |-> 4]
    /\ calls = 0
    /\ HarnessIdle

\* the calls of edit_current_beat: those that change the tempo, and those
\* that change num_measures and repeatable
EditCalls ==
    {<<b, n, None, None, rm, ad>> :
        b \in {None, Some(60)}, n \in {None, Some(8), Some(3)},
        rm \in RemoveShortcuts, ad \in AddShortcuts}
    \cup
    {<<None, None, k, rep, rm, ad>> :
        k \in {None, Some(2)}, rep \in {None, Some(FALSE), Some(TRUE)},
        rm \in RemoveShortcuts, ad \in AddShortcuts}

Next ==
    \/ ChangeBpm(60)
    \/ \E n \in {3, 8} : ChangeBaseNote(n)
    \/ \E n \in 1..MaxBeats, k \in {1}, rep \in BOOLEAN,
          sc \in RenderShortcuts :
          make_a_beat(n, k, rep, sc)
    \/ \E name \in Names : store_beat(name)
    \/ \E name \in Names, force \in BOOLEAN : switch_current_beat(name, force)
    \/ \E c \in EditCalls :
          edit_current_beat(c[1], c[2], c[3], c[4], c[5], c[6])

Spec == Init /\ [][Next]_vars

----------------------------------------------------------------------------
(* The tempo operations alone, from before the engine is constructed *)

EngineIdle ==
    /\ constructed = FALSE
    /\ bpm = 0
    /\ base_note = 0
    /\ _bpm = 0
    /\ _spb = 0
    /\ current_beat = None
    /\ stored_beats = <<>>
    /\ cells = <<>>
    /\ last = [op |-> "none"]
    /\ err = "ok"
    /\ calls = 0

InitTempo == EngineIdle /\ HarnessIdle

NextTempo ==
    \/ \E b \in BpmVals, n \in BaseNotes : Construct(b, n)
    \/ \E b \in BpmVals : ChangeBpm(b)
    \/ \E n \in BaseNotes : ChangeBaseNote(n)

SpecTempo == InitTempo /\ [][NextTempo]_vars

----------------------------------------------------------------------------
(* _edit_template alone: one call on a template of the caller *)

\* the decimal digits of n >= 1 and the suffix the caller writes after them
RECURSIVE Digits(_)
Digits(n) == IF n < 10 THEN <<n>> ELSE Digits(n \div 10) \o <<n % 10>>
Suffix(n) == IF n = 1 THEN "st" ELSE IF n = 2 THEN "nd"
             ELSE IF n = 3 THEN "rd" ELSE "th"
EveryNthKey(n) == KeyNth(Digits(n), Suffix(n))

TemplateLens == {3, 8, 16}
StartCells == {<<>>, <<"kick">>, <<"snare", "kick">>}

\* templates without duplicates in a cell, as appending shortcuts build them
StartTemplates ==
    {[i \in 1..n |-> IF i % 2 = 1 THEN x ELSE y] :
        n \in TemplateLens, x \in StartCells, y \in StartCells}

\* the shortcut dicts of one call on a template of n cells
CallShortcuts(n) ==
    {<<Shortcut(KeyEveryBeat, <<c>>)>> : c \in Clips}
    \cup {<<Shortcut(EveryNthKey(k), << <<"kick", off>> >>)>> :
            k \in 1..MaxNth, off \in (-1)..n}
    \cup {<<Shortcut(EveryNthKey(k), << <<"kick", 0>>, <<"snare", 1>> >>)>> :
            k \in 1..MaxNth}
    \cup {<<Shortcut(KeySingle, << <<"kick", <<0, i>> >> >>)>> :
            i \in {-n - 1, -1, 1, n - 1, n}}
    \cup {KickEveryBeet, KickEveryBeat \o KickEveryBeet,
          KickEveryBeet \o SnareEvery2nd}

\* _edit_template(measure, etype, **shortcuts) on the caller's template
EditTemplate(etype, shortcuts) ==
    /\ applied = NotApplied
    /\ LET r == _edit_template(measure, etype, shortcuts) IN
       /\ measure' = r.measure
       /\ edit_err' = r.err
    /\ applied' = [etype |-> etype, shortcuts |-> shortcuts]
    /\ UNCHANGED <<before, engine>>

InitEdit ==
    /\ EngineIdle
    /\ measure \in StartTemplates
    /\ before = measure
    /\ applied = NotApplied
    /\ edit_err = "ok"

NextEdit ==
    \E etype \in {"append", "remove"}, sc \in CallShortcuts(Len(measure)) :
        EditTemplate(etype, sc)

SpecEdit == InitEdit /\ [][NextEdit]_vars

----------------------------------------------------------------------------
(* The claims *)

\* what a stored entry shows of its beat: the contents of its template's
\* cells in the heap, its tempo and the length of its audio
Snapshot(entry, heap) ==
    IF IsNone(entry) THEN None
    ELSE LET beat == Val(entry) IN
         Some([template |-> [i \in DOMAIN beat.measure |-> heap[beat.measure[i]]],
               bpm |-> beat.bpm,
               base_note |-> beat.base_note,
               audio |-> beat.audio])

\* C1: an entry of the Snapshot Store changes only when store is called
\* again with its name: every other call leaves the cell contents, the tempo
\* and the rendered length of the beat held under each name as they were.
C1_SnapshotKept ==
    [][\A name \in DOMAIN stored_beats :
          \/ last'.op = "store_beat" /\ last'.name = name
          \/ /\ name \in DOMAIN stored_beats'
             /\ Snapshot(stored_beats'[name], cells')
                   = Snapshot(stored_beats[name], cells)]_vars

\* C2: switch_current_beat(name, force) with a current beat present: without
\* force it raises the conflict error and leaves the current beat and the
\* stored beats as they were; with force and name among the stored beats it
\* succeeds and the current beat is the one stored under name.
C2_Activate ==
    [][(last'.op = "switch_current_beat" /\ ~IsNone(current_beat)) =>
          IF ~last'.force
          THEN /\ err' = "Conflict"
               /\ current_beat' = current_beat
               /\ stored_beats' = stored_beats
               /\ cells' = cells
          ELSE last'.name \in DOMAIN stored_beats =>
               /\ err' = "ok"
               /\ current_beat' = stored_beats[last'.name]
               /\ stored_beats' = stored_beats
               /\ cells' = cells]_vars

\* C2 happens: a forced switch replaced a present current beat by a stored one
C2_Witness ==
    /\ last.op = "switch_current_beat"
    /\ last.present /\ last.force
    /\ err = "ok"
    /\ last.name \in DOMAIN stored_beats
    /\ ~IsNone(stored_beats[last.name])
    /\ current_beat = stored_beats[last.name]

\* C3: once a current beat is present, no call makes it absent again.
C3_StaysPresent == [][~IsNone(current_beat) => ~IsNone(current_beat')]_vars

\* C4: every edit_current_beat call, one that raises included, leaves bpm,
\* base_note, _bpm and _spb of the engine as they were before the call.
C4_TempoLocal ==
    [][last'.op = "edit_current_beat" =>
          <<bpm, base_note, _bpm, _spb>>' = <<bpm, base_note, _bpm, _spb>>]_vars

\* whether the shortcuts of one pass touch clip on the cell of index ind_beat
\* of a template of n cells
Touches(shortcuts, clip, ind_beat, n) ==
    \E s \in DOMAIN shortcuts :
        LET sc == shortcuts[s] IN
        \/ /\ sc.key = KeyEveryBeat
           /\ clip \in Range(sc.val)
        \/ /\ sc.key.pre = "every_" /\ sc.key.digits # <<>>
           /\ \E p \in DOMAIN sc.val :
                 /\ sc.val[p][1] = clip
                 /\ \E j \in 0..n : ind_beat = sc.val[p][2] + j * DecVal(sc.key.digits)
        \/ /\ sc.key = KeySingle
           /\ \E p \in DOMAIN sc.val :
                 /\ sc.val[p][1] = clip
                 /\ ind_beat \in Range(sc.val[p][2])

\* C5: edit_current_beat removes first and adds second: a clip that both the
\* remove shortcuts and the add shortcuts of a call touch on a cell is in that
\* cell of the resulting current beat's template.
C5_RemoveThenAdd ==
    [][\A c \in EditCalls :
          (/\ edit_current_beat(c[1], c[2], c[3], c[4], c[5], c[6])
           /\ err' = "ok") =>
          LET ids == Val(current_beat').measure IN
          \A i \in DOMAIN ids, clip \in Clips :
              (/\ Touches(c[5], clip, i - 1, Len(ids))
               /\ Touches(c[6], clip, i - 1, Len(ids)))
              => clip \in Range(cells'[ids[i]])]_vars

\* C6: edit_current_beat renders with the num_measures and repeatable the
\* caller passes, and with the current beat's value only for one left None.
C6_ExplicitArguments ==
    [][\A c \in EditCalls :
          (/\ edit_current_beat(c[1], c[2], c[3], c[4], c[5], c[6])
           /\ err' = "ok") =>
          /\ Val(current_beat').num_measures =
                IF IsNone(c[3]) THEN Val(current_beat).num_measures ELSE Val(c[3])
          /\ Val(current_beat').repeatable =
                IF IsNone(c[4]) THEN Val(current_beat).repeatable ELSE Val(c[4])]_vars

\* C7: constructing the engine with, and changing the base note to, a
\* base_note in {1,2,4,8,16} succeeds (bpm > 0), and one in {0,3,5,6} raises
\* the invalid-tempo error.
C7_TempoValidation ==
    LET n == IF last.op = "__init__" THEN last.base_note ELSE last.arg IN
    last.op \in {"__init__", "change_base_note"} =>
        /\ n \in {1, 2, 4, 8, 16} => err = "ok"
        /\ n \in {0, 3, 5, 6} => err = "InvalidTempo"

\* the cell indices offset, offset + nth, offset + 2 nth, ... below n
Progression(offset, nth, n) == {offset + j * nth : j \in 0..n} \cap (0..(n - 1))

\* the call made on the template was one every-Nth shortcut
OneEveryNth ==
    /\ applied # NotApplied
    /\ Len(applied.shortcuts) = 1
    /\ applied.shortcuts[1].key.pre = "every_"
    /\ applied.shortcuts[1].key.digits # <<>>

\* C8: an every-Nth shortcut with N >= 1 whose pairs (clip, offset) have
\* 0 <= offset < len touches, in append or remove mode, the clip on exactly
\* the cells offset, offset + N, ... and leaves every other cell and every
\* other clip as it was: an appended clip is in the touched cells, after the
\* clips that were there; a removed clip is gone from them.  N=4, offset=1 on
\* 16 cells touches {1,5,9,13}; N=3, offset=0 on 8 cells touches {0,3,6}.
C8_EveryNth ==
    OneEveryNth =>
    LET sc == applied.shortcuts[1]
        nth == DecVal(sc.key.digits)
        n == Len(before)
        InRange == \A p \in DOMAIN sc.val : 0 <= sc.val[p][2] /\ sc.val[p][2] < n
        Touched(clip) ==
            UNION {Progression(sc.val[p][2], nth, n) :
                      p \in {q \in DOMAIN sc.val : sc.val[q][1] = clip}}
        Changed == {i \in 0..(n - 1) : measure[i + 1] # before[i + 1]}
    IN
    (nth >= 1 /\ InRange) =>
    /\ edit_err = "ok"
    /\ Len(measure) = n
    /\ \A i \in 0..(n - 1) :
        LET old == before[i + 1]
            new == measure[i + 1]
        IN /\ \A clip \in Clips :
                 clip \in Range(new) <=>
                    IF applied.etype = "append"
                    THEN clip \in Range(old) \/ i \in Touched(clip)
                    ELSE clip \in Range(old) /\ i \notin Touched(clip)
           /\ Cardinality(Range(new)) = Len(new)
           /\ IF applied.etype = "append"
              THEN SubSeq(new, 1, Len(old)) = old
              ELSE LET Kept(x) == x \in Range(new) IN new = SelectSeq(old, Kept)
    /\ (/\ applied.etype = "append" /\ before = empty(n)
        /\ sc.val = << <<"kick", 1>> >> /\ nth = 4 /\ n = 16)
       => Changed = {1, 5, 9, 13}
    /\ (/\ applied.etype = "append" /\ before = empty(n)
        /\ sc.val = << <<"kick", 0>> >> /\ nth = 3 /\ n = 8)
       => Changed = {0, 3, 6}

\* C8 happens: every_4th with ("kick", 1) appended to 16 cells that hold a
\* snare and a kick on every second one
C8_Witness ==
    /\ OneEveryNth
    /\ applied.etype = "append"
    /\ applied.shortcuts[1].val = << <<"kick", 1>> >>
    /\ DecVal(applied.shortcuts[1].key.digits) = 4
    /\ Len(before) = 16
    /\ before[1] = <<>> /\ before[2] = <<"snare", "kick">>
    /\ measure[1] = <<>> /\ measure[2] = <<"snare", "kick">>
    /\ measure[5] = <<>> /\ measure[6] = <<"snare", "kick">>
    /\ edit_err = "ok"

\* a shortcut whose key is none of every_beat, every_<n><suffix>, single
UnknownKind(sc) == sc.key.pre \notin {"every_beat", "every_", "single"}

\* C9: a call whose shortcuts include one of an unknown kind raises the
\* invalid-pattern error, and has changed no cell of the template.
C9_UnknownKind ==
    (/\ applied # NotApplied
     /\ \E s \in DOMAIN applied.shortcuts : UnknownKind(applied.shortcuts[s]))
    => edit_err = "InvalidPattern" /\ measure = before

\* a beat index of a single shortcut, or an offset of an every-Nth shortcut,
\* of the call that lies outside 0..n-1
OutOfRange(sc, n) ==
    \/ /\ sc.key = KeySingle
       /\ \E p \in DOMAIN sc.val : \E k \in DOMAIN sc.val[p][2] :
             sc.val[p][2][k] < 0 \/ sc.val[p][2][k] >= n
    \/ /\ sc.key.pre = "every_" /\ sc.key.digits # <<>>
       /\ \E p \in DOMAIN sc.val : sc.val[p][2] < 0 \/ sc.val[p][2] >= n

\* C10: a beat index of a single shortcut or an offset of an every-Nth
\* shortcut outside 0..len-1 makes the call raise the index-out-of-range
\* error.
C10_IndexChecked ==
    (/\ applied # NotApplied
     /\ \E s \in DOMAIN applied.shortcuts :
           OutOfRange(applied.shortcuts[s], Len(before)))
    => edit_err = "IndexError"

----------------------------------------------------------------------------
(* make_a_beat alone: one call on a fresh engine *)

KickFirst == <<Shortcut(KeySingle, << <<"kick", <<0>> >> >>)>>
LengthShortcuts ==
    {<<>>, KickEveryBeat, SnareEvery2nd, KickFirst, KickEveryBeat \o SnareEvery2nd}

\* the engine as BeatBoxer(bpm, base_note) leaves it
InitLength ==
    /\ constructed = TRUE
    /\ \E b \in BpmVals, n \in {4, 8} :
          LET r == init_tempo(b, n) IN
          /\ bpm = r.t.bpm
          /\ base_note = r.t.base_note
          /\ _bpm = r.t._bpm
          /\ _spb = r.t._spb
          /\ err = r.err
          /\ last = [op |-> "__init__", bpm |-> b, base_note |-> n]
    /\ current_beat = None
    /\ stored_beats = <<>>
    /\ cells = <<>>
    /\ calls = 0
    /\ HarnessIdle

\* the first make_a_beat call on the engine
RenderOnce(n, num_measures, repeatable, shortcuts) ==
    /\ IsNone(current_beat)
    /\ make_a_beat(n, num_measures, repeatable, shortcuts)

NextLength ==
    \E n \in (1..MaxBeats) \cup {4}, k \in {1, 2, 3}, rep \in BOOLEAN,
       sc \in LengthShortcuts : RenderOnce(n, k, rep, sc)

SpecLength == InitLength /\ [][NextLength]_vars

\* the longest duration among the clips of a cell, 0 for an empty cell
Longest(cell) ==
    IF cell = <<>> THEN 0
    ELSE CHOOSE d \in {oneshots[c] : c \in Range(cell)} :
             \A c \in Range(cell) : oneshots[c] <= d

\* make_a_beat has just built the current beat
Rendered == last.op = "make_a_beat" /\ err = "ok" /\ ~IsNone(current_beat)

\* the contents of the rendered template's cells
RenderedCells == Contents(Val(current_beat).measure)

\* _spb * beats_per_measure * num_measures of the rendered beat
CanvasLength ==
    _spb * Val(current_beat).beats_per_measure * Val(current_beat).num_measures

\* C11 as claimed: the rendered audio is ms_per_beat * beats_per_measure *
\* num_measures long when repeatable, and when not repeatable longer by the
\* longest clip of the template's final non-empty cell (by 0 when every cell
\* is empty).
C11_FinalNonEmptyCell ==
    Rendered =>
    LET m == RenderedCells
        filled == {i \in DOMAIN m : m[i] # <<>>}
        tail == IF filled = {} THEN 0
                ELSE Longest(m[CHOOSE i \in filled : \A j \in filled : j <= i])
    IN Val(current_beat).audio =
          IF Val(current_beat).repeatable THEN CanvasLength
          ELSE CanvasLength + tail

\* C11 as amended: the rendered audio is ms_per_beat * beats_per_measure *
\* num_measures long when repeatable, whatever clips are placed, and when
\* not repeatable longer by the longest clip of the template's last cell (by
\* 0 when the last cell is empty); repeatable, 4 beats per measure, 2
\* measures and ms_per_beat = 500 give 4000 ms.
C11_LastCell ==
    Rendered =>
    LET m == RenderedCells IN
    /\ Val(current_beat).audio =
          IF Val(current_beat).repeatable THEN CanvasLength
          ELSE CanvasLength + Longest(m[Len(m)])
    /\ (/\ Val(current_beat).repeatable /\ Len(m) = 4
        /\ Val(current_beat).num_measures = 2 /\ _spb = 500)
       => Val(current_beat).audio = 4000

\* C11 happens: a beat that is not repeatable, with a kick on its first cell
\* and an empty last cell, is exactly as long as its canvas
C11_Witness ==
    /\ Rendered
    /\ ~Val(current_beat).repeatable
    /\ Len(RenderedCells) = 4
    /\ RenderedCells[1] = <<"kick">>
    /\ RenderedCells[4] = <<>>
    /\ _spb = 500
    /\ Val(current_beat).num_measures = 2
    /\ Val(current_beat).audio = 4000

====
